---- MODULE Spec2Model ----
(***************************************************************************)
(* State machine of core/user_service.py (UserService): the per-user       *)
(* session store, the cache of live chat services, the lock that guards    *)
(* both, and the command handlers, with the chat-service factories of      *)
(* services/factories.py.                                                  *)
(*                                                                         *)
(* Several callers run handle_message at once.  A `with self._lock:` block *)
(* is one step (it needs the lock free), except the block that calls the   *)
(* factory, whose acquisition and body are two steps so that the time the  *)
(* lock is held during construction is a state, and the block of the role  *)
(* switch, whose write of the role and removal of the cached service are   *)
(* two steps because the cache is also read without the lock.  Every read  *)
(* or write of shared state outside a lock block is a step of its own.     *)
(***************************************************************************)
EXTENDS Integers, Sequences, FiniteSets, TLC

VARIABLES
    users,         \* self._users: user_id -> UserProfile
    heap,          \* the SessionInfo objects, by the uuid they were built with
    active_chats,  \* self._active_chats: session_id -> index into services
    services,      \* every chat service constructed so far, in order
    lock,          \* self._lock: the caller holding it, or NoHolder
    disk,          \* the JSON document at user_data_path
    ROLES_CONFIG,  \* knowledge/roles.json as loaded: role name -> description
    th,            \* per caller: position in handle_message and its locals
    owner,         \* history: session_id -> the user it was created for
    ops,           \* handle_message calls started so far
    boot,          \* position of __init__ in _load_all_users
    split          \* locals of OneBotV11Pusher._split_message

vars == <<users, heap, active_chats, services, lock, disk, ROLES_CONFIG, th, owner, ops, boot, split>>

----------------------------------------------------------------------------
\* Bounds of the model.
MaxOps == 3
MaxIssued == 3
MaxLiveOps == 4
MaxFaultyOps == 4
MaxUpdaterOps == 3
MaxBootEntries == 2
MaxAdminOps == 4
MaxHistoryOps == 2
MaxHistory == 42
MaxMessageLen == 5
MAX_LENGTH == 3
MaxParts == 6

\* The callers (threads / tasks inside handle_message) and the users they
\* speak for.  The first caller always speaks for user 1, the second for
\* either user: two callers of one user, and one caller each of two users.
Callers == {"c1", "c2"}
UserIds == {1, 2}
CallerUsers(c) == IF c = "c1" THEN {1} ELSE UserIds

NoHolder == "free"
NoSession == <<>>
NoRole == "<None>"
NoChat == 0
EmptyConfig == [k \in {} |-> ""]
DefaultLlm == "Settings.llm"

\* The uuid4().hex values, in the order the runs draw them: each is new, and
\* some share their first character.  Which user gets which id follows from
\* the order of the users' commands.
IdSeq == << <<"a", "a">>, <<"a", "b">>, <<"b", "a">>, <<"b", "b">> >>
Prefixes == {<<"a">>, <<"a", "b">>}

\* uuid.uuid4().hex, after `issued` ids were drawn.
Uuid4Repeating(issued) == IdSeq[1]

Uuid4(issued) == IdSeq[issued + 1]

Factories == {"pwvn", "plain"}

NominalRoles == ("Dean" :> "persona of Dean") @@ ("Ann" :> "persona of Ann")

\* A roles file in which one role has an empty description.
FaultyRoles == ("Dean" :> "persona of Dean") @@ ("Ann" :> "")

\* A users file written with a mode that the adapters register no factory
\* for: user 2 with one session of mode 'general_qa', which is active.
LegacyId == <<"z", "z">>

LegacyDoc ==
    << <<"2", [kind |-> "object", user_id |-> 2,
               active_session_id |-> LegacyId,
               sessions |-> << <<LegacyId,
                                 [session_id |-> LegacyId, session_mode |-> "general_qa",
                                  user_role |-> NoRole, bot_role |-> NoRole,
                                  config |-> EmptyConfig]>> >>]>> >>

Msg(cmd, args, prefix) == [cmd |-> cmd, args |-> args, prefix |-> prefix]

NewArgs ==
    { <<>>, <<"bogus">>, <<"plain">>, <<"pwvn", "Dave">>,
      <<"pwvn", "Dave", "Dean">>, <<"pwvn", "Dave", "Nobody">> }

\* The messages the callers send: free text, and the commands that change
\* the store or the cache.
Messages ==
    { Msg("text", <<>>, <<>>) }
      \cup { Msg("/new", a, <<>>) : a \in NewArgs }
      \cup { Msg(k, <<>>, p) : k \in {"/ss", "/dels"}, p \in Prefixes }
      \cup { Msg("/sbr", <<r>>, <<>>) : r \in {"Ann", "Nobody"} }
      \cup { Msg("/sur", <<"Eve">>, <<>>) }

\* The messages about a live chat service: free text, a role switch and the
\* switch of the model, after a session was created.
LlmNames == {"deepseek-chat", "gpt-4"}

LiveMessages ==
    { Msg("text", <<>>, <<>>), Msg("/new", <<"pwvn", "Dave", "Dean">>, <<>>),
      Msg("/sur", <<"Eve">>, <<>>) }
      \cup { Msg("/sl", <<n>>, <<>>) : n \in LlmNames }

\* The messages that lead to a construction that fails, and to one that
\* succeeds afterwards.
FaultyMessages ==
    { Msg("text", <<>>, <<>>) }
      \cup { Msg("/new", <<"pwvn", "Dave", r>>, <<>>) : r \in {"Ann", "Dean"} }
      \cup { Msg("/sbr", <<r>>, <<>>) : r \in {"Ann", "Dean"} }

\* The messages beside which a chat service calls its config_updater, and
\* the keys it passes.
UpdaterMessages ==
    { Msg("text", <<>>, <<>>), Msg("/new", <<"plain">>, <<>>),
      Msg("/new", <<"pwvn", "Dave", "Dean">>, <<>>), Msg("/sur", <<"Eve">>, <<>>) }

NewConfigData == ("system_prompt" :> "Answer in one sentence.")

\* No message is being split.
NoSplit == [pc |-> "idle", message |-> <<>>, start |-> 0, parts |-> <<>>]

\* __init__ has returned.
Ready == [pc |-> "ready", i |-> 0]

\* config/settings.py, ADMIN_USER_IDS: user 1 is an admin, user 2 is not.
ADMIN_USER_IDS == {1}

\* The messages that start with '/admin', by their first word and the rest:
\* handle_command looks only at what follows the first word.
AdminCommands == {"/admin", "/administer"}

TriggerWords == {"triggernew", "triggernews"}

AdminMessages ==
    { Msg("text", <<>>, <<>>) }
      \cup { Msg(k, a, <<>>) : k \in AdminCommands,
                               a \in {<<>>, <<"reload">>} \cup { <<w>> : w \in TriggerWords } }

\* No prompt built: the first and last history entry of a prompt.
NoPrompt == [first |-> 1, last |-> 0]

IdleRec ==
    [pc |-> "idle", user |-> 0, msg |-> Msg("", <<>>, <<>>), sinfo |-> NoSession,
     chat |-> NoChat, reply |-> "", seen |-> -1, prompt |-> NoPrompt]

----------------------------------------------------------------------------
\* Helpers of UserService.

AVAILABLE_ROLES == DOMAIN ROLES_CONFIG

ValidateRoleAny(role_name) == TRUE

ValidateRole(role_name) == role_name \in AVAILABLE_ROLES

GetOrCreateUser(us, user_id) ==
    IF user_id \in DOMAIN us THEN us
    ELSE us @@ (user_id :> [user_id |-> user_id, active_session_id |-> NoSession,
                            sessions |-> <<>>])

InvalidateActiveChatSkipped(chats, session_id) == chats

InvalidateActiveChatAll(chats, session_id) == [s \in {} |-> 0]

InvalidateActiveChat(chats, session_id) ==
    IF session_id # NoSession /\ session_id \in DOMAIN chats
    THEN [s \in DOMAIN chats \ {session_id} |-> chats[s]]
    ELSE chats

StartsWith(s, prefix) ==
    /\ Len(prefix) <= Len(s)
    /\ SubSeq(s, 1, Len(prefix)) = prefix

Range(seq) == { seq[i] : i \in 1..Len(seq) }

\* The value serialised for one user by _save_user_profile: the sessions
\* are the pairs of a key of the sessions map and the fields of its entry.
SerializeUserNoSessions(profile) ==
    [kind |-> "object",
     user_id |-> profile.user_id,
     active_session_id |-> profile.active_session_id,
     sessions |-> <<>>]

SerializeUser(profile) ==
    [kind |-> "object",
     user_id |-> profile.user_id,
     active_session_id |-> profile.active_session_id,
     sessions |-> [i \in 1..Len(profile.sessions) |->
                     <<profile.sessions[i], heap[profile.sessions[i]]>>]]

Serialize == [u \in DOMAIN users |-> SerializeUser(users[u])]

\* json.dump writes the int keys of a dict as decimal strings, and int()
\* reads such a string back and raises ValueError on any other.
JsonKey(user_id) == IF user_id = 1 THEN "1" ELSE "2"

IntOf(user_id_str) ==
    IF user_id_str = "1" THEN [ok |-> TRUE, value |-> 1]
    ELSE IF user_id_str = "2" THEN [ok |-> TRUE, value |-> 2]
    ELSE [ok |-> FALSE]

\* The document json.dump writes for a dict of users: its items, as pairs of
\* a key string and a value.
RECURSIVE JsonDumpFrom(_, _)
JsonDumpFrom(serializable_users, uids) ==
    IF uids = {} THEN <<>>
    ELSE LET uid == CHOOSE x \in uids : \A y \in uids : x <= y
         IN  << <<JsonKey(uid), serializable_users[uid]>> >>
               \o JsonDumpFrom(serializable_users, uids \ {uid})

JsonDump(serializable_users) == JsonDumpFrom(serializable_users, DOMAIN serializable_users)

\* dict.get(key, default)
Get(d, key, default) == IF key \in DOMAIN d THEN d[key] ELSE default

----------------------------------------------------------------------------
\* _handle_new_session, before the lock: argument checks and the SessionInfo.

NewSessionCheckArityOnly(parts) ==
    IF parts = <<>> THEN "NewUsage"
    ELSE IF parts[1] = "pwvn" /\ Len(parts) - 1 < 2 THEN "PwvnUsage"
    ELSE "ok"

NewSessionCheck(parts) ==
    IF parts = <<>> THEN "NewUsage"
    ELSE IF parts[1] \notin Factories THEN "UnknownMode"
    ELSE IF parts[1] = "pwvn"
         THEN IF Len(parts) - 1 < 2 THEN "PwvnUsage"
              ELSE IF ~ValidateRole(parts[3]) THEN "InvalidRole"
              ELSE "ok"
    ELSE "ok"

NewSessionInfo(id, parts) ==
    IF parts[1] = "pwvn"
    THEN [session_id |-> id, session_mode |-> "pwvn", user_role |-> parts[2],
          bot_role |-> parts[3], config |-> EmptyConfig]
    ELSE [session_id |-> id, session_mode |-> parts[1], user_role |-> NoRole,
          bot_role |-> NoRole, config |-> EmptyConfig]

\* _handle_switch_session: the first session, in insertion order, whose id
\* starts with the prefix; NoSession when there is none.
RECURSIVE FirstMatch(_, _)
FirstMatch(sessions, prefix) ==
    IF sessions = <<>> THEN NoSession
    ELSE IF StartsWith(heap[Head(sessions)].session_id, prefix) THEN Head(sessions)
    ELSE FirstMatch(Tail(sessions), prefix)

TargetSessionsFirstOnly(sessions, prefix) ==
    IF FirstMatch(sessions, prefix) = NoSession THEN <<>>
    ELSE <<FirstMatch(sessions, prefix)>>

\* _handle_delete_session: every session whose id starts with the prefix.
RECURSIVE TargetSessions(_, _)
TargetSessions(sessions, prefix) ==
    IF sessions = <<>> THEN <<>>
    ELSE IF StartsWith(heap[Head(sessions)].session_id, prefix)
         THEN <<Head(sessions)>> \o TargetSessions(Tail(sessions), prefix)
    ELSE TargetSessions(Tail(sessions), prefix)

RECURSIVE Without(_, _)
Without(sessions, target_id) ==
    IF sessions = <<>> THEN <<>>
    ELSE IF Head(sessions) = target_id THEN Without(Tail(sessions), target_id)
    ELSE <<Head(sessions)>> \o Without(Tail(sessions), target_id)

DeleteWasActiveNever(profile, target_id) == FALSE

DeleteWasActive(profile, target_id) == profile.active_session_id = target_id

DeleteNextActiveCleared(sessions) == NoSession

DeleteNextActive(sessions) ==
    IF sessions # <<>> THEN heap[Head(sessions)].session_id ELSE NoSession

\* _handle_modify_role: the command is refused unless the active session is
\* a 'pwvn' one.
ModifyRoleRefusedOnlyNone(session_info) == session_info = NoSession

ModifyRoleRefused(session_info) ==
    session_info = NoSession \/ heap[session_info].session_mode # "pwvn"

----------------------------------------------------------------------------
\* The factories of services/factories.py: the service built from a
\* SessionInfo, or a raise.

Raised == [ok |-> FALSE]

ServiceRebound(session_id, kind, user_role, bot_role, bot_role_info, system_prompt) ==
    LET prev == { i \in 1..Len(services) : services[i].session_id = session_id }
        last == CHOOSE i \in prev : \A j \in prev : j <= i
    IN  [ok |-> TRUE,
         svc |-> [session_id |-> session_id, kind |-> kind, user_role |-> user_role,
                  bot_role |-> bot_role, bot_role_info |-> bot_role_info,
                  system_prompt |-> system_prompt,
                  llm |-> IF prev = {} THEN DefaultLlm ELSE services[last].llm,
                  history |-> 0]]

Service(session_id, kind, user_role, bot_role, bot_role_info, system_prompt) ==
    [ok |-> TRUE,
     svc |-> [session_id |-> session_id, kind |-> kind, user_role |-> user_role,
              bot_role |-> bot_role, bot_role_info |-> bot_role_info,
              system_prompt |-> system_prompt, llm |-> DefaultLlm, history |-> 0]]

PWVNCreateServiceUnchecked(info) ==
    Service(info.session_id, "pwvn", info.user_role, info.bot_role,
            IF info.bot_role \in DOMAIN ROLES_CONFIG THEN ROLES_CONFIG[info.bot_role]
            ELSE "", "")

PWVNCreateService(info) ==
    IF info.session_mode # "pwvn" THEN Raised
    ELSE IF info.bot_role = NoRole \/ info.user_role = NoRole THEN Raised
    ELSE IF info.bot_role \notin DOMAIN ROLES_CONFIG THEN Raised
    ELSE IF ROLES_CONFIG[info.bot_role] = "" THEN Raised
    ELSE Service(info.session_id, "pwvn", info.user_role, info.bot_role,
                 ROLES_CONFIG[info.bot_role], "")

GeneralCreateService(info) ==
    IF info.session_mode \notin {"general_qa", "plain"} THEN Raised
    ELSE Service(info.session_id, "general", NoRole, NoRole, "",
                 IF "system_prompt" \in DOMAIN info.config
                 THEN info.config["system_prompt"]
                 ELSE "You are a helpful assistant.")

CreateService(info) ==
    IF info.session_mode = "pwvn" THEN PWVNCreateService(info)
    ELSE GeneralCreateService(info)

\* Leaving a `with self._lock:` block, by its end, a return or a raise.
LockKept(holder) == holder

LockReleased(holder) == NoHolder

\* services/llm_factory.py, get_llm_by_name: an instance for a name with a
\* supported prefix, ValueError for any other name.
GetLlmByName(model_name) ==
    IF model_name = "deepseek-chat" THEN [ok |-> TRUE, llm |-> model_name]
    ELSE Raised

\* switch_llm of both chat services: self.llm = llm.
SwitchLlmFresh(svc, llm) == [svc EXCEPT !.llm = llm, !.history = 0]

SwitchLlm(svc, llm) == [svc EXCEPT !.llm = llm]

\* The history entries a chat service puts into the prompt, between the
\* system prompt and the new user message: PWVNRoleplayChatService takes
\* history[-40:], GeneralChatService takes all of self.history.
HistoryWindow == 40

PromptHistory(svc) ==
    IF svc.kind = "pwvn"
    THEN [first |-> IF svc.history > HistoryWindow THEN svc.history - HistoryWindow + 1 ELSE 1,
          last |-> svc.history]
    ELSE [first |-> 1, last |-> svc.history]

\* The user message and the reply are appended.
AppendUserOnly(history) == history + 1

AppendTurn(history) == history + 2

DoubleCheckSkipped(chats, session_id) == FALSE

DoubleCheckHit(chats, session_id) == session_id \in DOMAIN chats

ChatMissingIgnored(chat) == FALSE

ChatMissing(chat) == chat = NoChat

----------------------------------------------------------------------------
\* _load_all_users, lines 56-61: the SessionInfo made for one item of a
\* user's 'sessions'; no config is passed, so it is the default empty dict.
SessionFromData(session_id, session_data) ==
    [session_id |-> session_id,
     session_mode |-> Get(session_data, "session_mode", "pwvn"),
     user_role |-> Get(session_data, "user_role", NoRole),
     bot_role |-> Get(session_data, "bot_role", NoRole),
     config |-> EmptyConfig]

\* _load_all_users, lines 54-68: one pass of the loop over raw_data.items().
\* int() of a key that is no number raises ValueError and .get on a value
\* that is no dict raises AttributeError; line 69 catches neither.
LoadEntry(store, user_id_str, data) ==
    LET user_id == IntOf(user_id_str)
    IN  IF ~user_id.ok \/ data.kind # "object" THEN [ok |-> FALSE]
        ELSE LET items == Get(data, "sessions", <<>>)
                 ids == [i \in 1..Len(items) |-> items[i][1]]
                 profile == [user_id |-> user_id.value,
                             active_session_id |-> Get(data, "active_session_id", NoSession),
                             sessions |-> ids]
             IN  [ok |-> TRUE,
                  users |-> [u \in DOMAIN store.users \cup {user_id.value} |->
                               IF u = user_id.value THEN profile ELSE store.users[u]],
                  heap |-> [id \in DOMAIN store.heap \cup Range(ids) |->
                              IF id \in Range(ids)
                              THEN LET i == CHOOSE k \in 1..Len(items) : items[k][1] = id
                                   IN  SessionFromData(id, items[i][2])
                              ELSE store.heap[id]]]

EmptyStore == [ok |-> TRUE, users |-> [u \in {} |-> 0], heap |-> [s \in {} |-> 0]]

\* The whole loop of _load_all_users over a document.
RECURSIVE LoadFrom(_, _)
LoadFrom(store, raw_data) ==
    IF raw_data = <<>> \/ ~store.ok THEN store
    ELSE LoadFrom(LoadEntry(store, Head(raw_data)[1], Head(raw_data)[2]), Tail(raw_data))

LoadUsers(doc) == LoadFrom(EmptyStore, doc).users

LoadHeap(doc) == LoadFrom(EmptyStore, doc).heap

OwnerOf(us) ==
    [id \in UNION { Range(us[u].sessions) : u \in DOMAIN us } |->
        CHOOSE u \in DOMAIN us : id \in Range(us[u].sessions)]

LoadOwner(doc) == OwnerOf(LoadUsers(doc))

\* The users files a start can find: none, one whose content json.load
\* rejects (json is FALSE), and documents of up to MaxBootEntries items.  A key is the decimal string of
\* a user id or another string; a value is a dict, with or without its
\* keys and with one session at most, or the bare session-id string of the
\* older format.
BootKeys == {"1", "2", "x"}

BootSessionId(key) ==
    IF key = "1" THEN <<"a", "a">> ELSE IF key = "2" THEN <<"b", "a">> ELSE LegacyId

BootData(key) ==
    LET id == BootSessionId(key)
        one(session_data) == [kind |-> "object", active_session_id |-> id,
                              sessions |-> << <<id, session_data>> >>]
    IN  { [kind |-> "object"],
          [kind |-> "object", active_session_id |-> NoSession, sessions |-> <<>>],
          one([session_mode |-> "plain", user_role |-> NoRole, bot_role |-> NoRole,
               config |-> NewConfigData]),
          one([user_role |-> "Dave", bot_role |-> "Dean"]),
          [kind |-> "string", value |-> id] }

BootEntries == { <<key, data>> : key \in BootKeys, data \in UNION { BootData(k) : k \in BootKeys } }

BootDocs ==
    { doc \in UNION { [1..n -> BootEntries] : n \in 0..MaxBootEntries } :
        /\ \A i \in 1..Len(doc) : doc[i][2] \in BootData(doc[i][1])
        /\ \A i \in 1..Len(doc), j \in 1..Len(doc) : i # j => doc[i][1] # doc[j][1] }

BootFiles ==
    { [exists |-> FALSE, json |-> FALSE, doc |-> <<>>],
      [exists |-> TRUE, json |-> FALSE, doc |-> <<>>] }
      \cup { [exists |-> TRUE, json |-> TRUE, doc |-> doc] : doc \in BootDocs }

----------------------------------------------------------------------------
Init ==
    /\ users = [u \in {} |-> 0]
    /\ heap = [s \in {} |-> 0]
    /\ active_chats = [s \in {} |-> 0]
    /\ services = <<>>
    /\ lock = NoHolder
    /\ disk = [exists |-> FALSE, json |-> FALSE, doc |-> <<>>]
    /\ ROLES_CONFIG = NominalRoles
    /\ th = [c \in Callers |-> IdleRec]
    /\ owner = [s \in {} |-> 0]
    /\ ops = 0
    /\ boot = Ready
    /\ split = NoSplit

\* handle_message returns: the handler's locals are gone; the message and
\* its reply stay visible until the caller's next message.
Returned(user_id, message, reply) ==
    [IdleRec EXCEPT !.pc = "done", !.user = user_id, !.msg = message, !.reply = reply]

Finish(c, reply) == Returned(th[c].user, th[c].msg, reply)

\* handle_message, its routing and the handlers' checks of their arguments,
\* up to the first access to shared state.  A caller sends its next message
\* once the reply to the last one is back.
Dispatch(u, m, id) ==
    LET base == [IdleRec EXCEPT !.user = u, !.msg = m]
        fin(r) == Returned(u, m, r)
    IN  CASE m.cmd = "text" -> [base EXCEPT !.pc = "gasi_lock"]
          [] m.cmd = "/new" ->
                IF NewSessionCheck(m.args) = "ok"
                THEN [base EXCEPT !.pc = "new_commit", !.sinfo = id]
                ELSE fin(NewSessionCheck(m.args))
          [] m.cmd = "/ss" ->
                IF m.prefix = <<>> THEN fin("SwitchUsage")
                ELSE [base EXCEPT !.pc = "ss_commit"]
          [] m.cmd = "/dels" ->
                IF m.prefix = <<>> THEN fin("DeleteUsage")
                ELSE [base EXCEPT !.pc = "dels_commit"]
          [] m.cmd \in {"/sbr", "/sur"} ->
                IF m.args = <<>> THEN fin("RoleUsage")
                ELSE [base EXCEPT !.pc = "gasi_lock"]
          [] m.cmd = "/sl" ->
                IF m.args = <<>> THEN fin("LlmUsage")
                ELSE [base EXCEPT !.pc = "gasi_lock"]
          [] m.cmd \in AdminCommands -> [base EXCEPT !.pc = "admin"]
          [] OTHER -> fin("UnknownCommand")

HandleMessageFrom(c, messages, max_ops) ==
    /\ th[c].pc \in {"idle", "done"}
    /\ ops < max_ops
    /\ \E u \in CallerUsers(c), m \in messages :
         IF m.cmd = "/new" /\ NewSessionCheck(m.args) = "ok"
         THEN /\ Cardinality(DOMAIN heap) < MaxIssued
              /\ Cardinality(DOMAIN heap) < Len(IdSeq)
              /\ LET id == Uuid4(Cardinality(DOMAIN heap))
                 IN  /\ heap' = heap @@ (id :> NewSessionInfo(id, m.args))
                     /\ th' = [th EXCEPT ![c] = Dispatch(u, m, id)]
         ELSE /\ heap' = heap
              /\ th' = [th EXCEPT ![c] = Dispatch(u, m, NoSession)]
    /\ ops' = ops + 1
    /\ UNCHANGED <<users, active_chats, services, lock, disk, ROLES_CONFIG, split, boot, owner>>

HandleMessage(c) == HandleMessageFrom(c, Messages, MaxOps)

HandleFaultyMessage(c) == HandleMessageFrom(c, FaultyMessages, MaxFaultyOps)

HandleUpdaterMessage(c) == HandleMessageFrom(c, UpdaterMessages, MaxUpdaterOps)

HandleAdminMessage(c) == HandleMessageFrom(c, AdminMessages, MaxAdminOps)

HandleHistoryMessage(c) ==
    HandleMessageFrom(c, {Msg("text", <<>>, <<>>)}, MaxHistoryOps)

HandleLiveMessage(c) == HandleMessageFrom(c, LiveMessages, MaxLiveOps)

\* _handle_new_session, lines 182-186.
NewSessionCommit(c) ==
    /\ th[c].pc = "new_commit"
    /\ lock = NoHolder
    /\ LET u == th[c].user
           id == th[c].sinfo
           us == GetOrCreateUser(users, u)
       IN  /\ users' = [us EXCEPT ![u] =
                          [@ EXCEPT !.sessions = Append(@, id),
                                    !.active_session_id = heap[id].session_id]]
           /\ active_chats' = InvalidateActiveChat(active_chats, us[u].active_session_id)
           /\ owner' = owner @@ (id :> u)
    /\ th' = [th EXCEPT ![c].pc = "save"]
    /\ UNCHANGED <<heap, services, lock, disk, ROLES_CONFIG, split, boot, ops>>

\* _handle_switch_session, lines 209-216.
SwitchSessionCommit(c) ==
    /\ th[c].pc = "ss_commit"
    /\ lock = NoHolder
    /\ LET u == th[c].user
           us == GetOrCreateUser(users, u)
           target == FirstMatch(us[u].sessions, th[c].msg.prefix)
       IN  IF target = NoSession
           THEN /\ users' = us
                /\ th' = [th EXCEPT ![c] = Finish(c, "NotFound")]
                /\ UNCHANGED active_chats
           ELSE /\ active_chats' = InvalidateActiveChat(active_chats, us[u].active_session_id)
                /\ users' = [us EXCEPT ![u].active_session_id = heap[target].session_id]
                /\ th' = [th EXCEPT ![c].pc = "save", ![c].sinfo = target]
    /\ UNCHANGED <<heap, services, lock, disk, ROLES_CONFIG, split, boot, owner, ops>>

\* _handle_delete_session, lines 226-240.
DeleteSessionCommit(c) ==
    /\ th[c].pc = "dels_commit"
    /\ lock = NoHolder
    /\ LET u == th[c].user
           us == GetOrCreateUser(users, u)
           targets == TargetSessions(us[u].sessions, th[c].msg.prefix)
       IN  IF targets = <<>>
           THEN /\ users' = us
                /\ th' = [th EXCEPT ![c] = Finish(c, "NotFound")]
                /\ UNCHANGED active_chats
           ELSE IF Len(targets) > 1
           THEN /\ users' = us
                /\ th' = [th EXCEPT ![c] = Finish(c, "Ambiguous")]
                /\ UNCHANGED active_chats
           ELSE LET target_id == heap[targets[1]].session_id
                    rest == Without(us[u].sessions, target_id)
                IN  /\ IF DeleteWasActive(us[u], target_id)
                       THEN /\ users' = [us EXCEPT ![u].sessions = rest,
                                              ![u].active_session_id = DeleteNextActive(rest)]
                            /\ active_chats' = InvalidateActiveChat(active_chats, target_id)
                       ELSE /\ users' = [us EXCEPT ![u].sessions = rest]
                            /\ UNCHANGED active_chats
                    /\ th' = [th EXCEPT ![c].pc = "save", ![c].sinfo = target_id]
    /\ UNCHANGED <<heap, services, lock, disk, ROLES_CONFIG, split, boot, owner, ops>>

\* A save that, when the write fails, puts the store back to what the file
\* holds.
SaveUserProfileRollingBack(c) ==
    /\ th[c].pc \in {"save", "cfg_save"}
    /\ lock = NoHolder
    /\ \/ /\ disk' = [exists |-> TRUE, json |-> TRUE, doc |-> JsonDump(Serialize)]
          /\ users' = users
          /\ th' = [th EXCEPT ![c] = Finish(c, "Saved")]
       \/ /\ disk' = disk
          /\ users' = LoadUsers(disk.doc)
          /\ th' = [th EXCEPT ![c] = Finish(c, "Raised")]
    /\ UNCHANGED <<heap, active_chats, services, lock, ROLES_CONFIG, split, boot, owner, ops>>

\* _save_user_profile: the whole store is rewritten under the lock; an I/O
\* error escapes the handler.
SaveUserProfile(c) ==
    /\ th[c].pc \in {"save", "cfg_save"}
    /\ lock = NoHolder
    /\ \/ /\ disk' = [exists |-> TRUE, json |-> TRUE, doc |-> JsonDump(Serialize)]
          /\ th' = [th EXCEPT ![c] =
                       IF th[c].pc = "cfg_save" THEN [th[c] EXCEPT !.pc = "respond"]
                       ELSE Finish(c,
                              CASE th[c].msg.cmd = "/new" -> "Created"
                                [] th[c].msg.cmd = "/ss" -> "Switched"
                                [] th[c].msg.cmd = "/dels" -> "Deleted"
                                [] OTHER -> "RoleUpdated")]
       \/ /\ disk' = disk
          /\ th' = [th EXCEPT ![c] = Finish(c, "Raised")]
    /\ UNCHANGED <<users, heap, active_chats, services, lock, ROLES_CONFIG, split, boot, owner, ops>>

\* handle_message, lines 125-130: None from _get_active_chat is answered with
\* the "no active session" reply; anything else is asked for the response.
\* _handle_switch_llm, lines 276-278: the same test, with its own reply.
AfterChat(c, chat) ==
    IF th[c].msg.cmd = "/sl"
    THEN IF ChatMissing(chat) THEN Finish(c, "NoActiveLlm")
         ELSE [th[c] EXCEPT !.pc = "switch_llm", !.chat = chat]
    ELSE IF ChatMissing(chat) THEN Finish(c, "NoActive")
         ELSE [th[c] EXCEPT !.pc = "respond", !.chat = chat]

\* _get_active_session_info, lines 294-297: under the lock, the profile is
\* looked up (or created) and an unset active id ends the lookup with None.
\* AfterInfo is what the caller of _get_active_session_info does with the
\* result before it touches shared state again.
AfterInfo(c, session_info) ==
    IF th[c].msg.cmd \in {"/sbr", "/sur"}
    THEN IF ModifyRoleRefused(session_info)
         THEN Finish(c, "OnlyPwvn")
         ELSE [th[c] EXCEPT !.pc = "role_commit", !.sinfo = session_info]
    ELSE IF session_info = NoSession
         THEN AfterChat(c, NoChat)
         ELSE [th[c] EXCEPT !.pc = "chat_check", !.sinfo = session_info]

GetActiveSessionInfoLocked(c) ==
    /\ th[c].pc = "gasi_lock"
    /\ lock = NoHolder
    /\ LET us == GetOrCreateUser(users, th[c].user)
       IN  /\ users' = us
           /\ IF us[th[c].user].active_session_id = NoSession
              THEN th' = [th EXCEPT ![c] = AfterInfo(c, NoSession)]
              ELSE th' = [th EXCEPT ![c].pc = "gasi_read"]
    /\ UNCHANGED <<heap, active_chats, services, lock, disk, ROLES_CONFIG, split, boot, owner, ops>>

\* _get_active_session_info, line 298: after the lock is released, the
\* argument user_profile.active_session_id is read again.
GetActiveSessionInfoRead(c) ==
    /\ th[c].pc = "gasi_read"
    /\ th' = [th EXCEPT ![c].pc = "gasi_get",
                        ![c].sinfo = users[th[c].user].active_session_id]
    /\ UNCHANGED <<users, heap, active_chats, services, lock, disk, ROLES_CONFIG, split, boot, owner, ops>>

\* _get_active_session_info, line 298: sessions.get(<id read>, None) on the
\* sessions map as it is now.
GetActiveSessionInfoGet(c) ==
    /\ th[c].pc = "gasi_get"
    /\ LET profile == users[th[c].user]
           session_info == IF th[c].sinfo \in Range(profile.sessions)
                           THEN th[c].sinfo
                           ELSE NoSession
       IN  th' = [th EXCEPT ![c] = AfterInfo(c, session_info)]
    /\ UNCHANGED <<users, heap, active_chats, services, lock, disk, ROLES_CONFIG, split, boot, owner, ops>>

\* _handle_modify_role, lines 255-263: the lock is taken, the bot role is
\* validated and the role field of the SessionInfo is written.  A failed
\* validation returns out of the block, which releases the lock.
ModifyRoleCommit(c) ==
    /\ th[c].pc = "role_commit"
    /\ lock = NoHolder
    /\ LET s == th[c].sinfo
           role_name == th[c].msg.args[1]
       IN  IF th[c].msg.cmd = "/sbr" /\ ~ValidateRole(role_name)
           THEN /\ th' = [th EXCEPT ![c] = Finish(c, "InvalidRole")]
                /\ UNCHANGED <<heap, lock>>
           ELSE /\ heap' = IF th[c].msg.cmd = "/sbr"
                           THEN [heap EXCEPT ![s].bot_role = role_name]
                           ELSE [heap EXCEPT ![s].user_role = role_name]
                /\ lock' = c
                /\ th' = [th EXCEPT ![c].pc = "role_evict"]
    /\ UNCHANGED <<users, active_chats, services, disk, ROLES_CONFIG, split, boot, owner, ops>>

\* _handle_modify_role, line 266, still under the lock: the session's cached
\* service is removed; leaving the block releases the lock.
ModifyRoleInvalidate(c) ==
    /\ th[c].pc = "role_evict"
    /\ lock = c
    /\ active_chats' = InvalidateActiveChat(active_chats, heap[th[c].sinfo].session_id)
    /\ lock' = NoHolder
    /\ th' = [th EXCEPT ![c].pc = "save"]
    /\ UNCHANGED <<users, heap, services, disk, ROLES_CONFIG, split, boot, owner, ops>>

\* _get_active_chat, line 310: the membership test made without the lock.
ChatFastCheck(c) ==
    /\ th[c].pc = "chat_check"
    /\ IF heap[th[c].sinfo].session_id \in DOMAIN active_chats
       THEN th' = [th EXCEPT ![c].pc = "chat_get"]
       ELSE th' = [th EXCEPT ![c].pc = "chat_acquire", ![c].seen = Len(services)]
    /\ UNCHANGED <<users, heap, active_chats, services, lock, disk, ROLES_CONFIG, split, boot, owner, ops>>

\* _get_active_chat, line 311: the subscript made without the lock; a key
\* removed since the test raises KeyError, which nothing catches.
ChatFastGet(c) ==
    /\ th[c].pc = "chat_get"
    /\ LET sid == heap[th[c].sinfo].session_id
       IN  IF sid \in DOMAIN active_chats
           THEN th' = [th EXCEPT ![c] = AfterChat(c, active_chats[sid])]
           ELSE th' = [th EXCEPT ![c] = Finish(c, "Raised")]
    /\ UNCHANGED <<users, heap, active_chats, services, lock, disk, ROLES_CONFIG, split, boot, owner, ops>>

\* _get_active_chat, line 313: the lock is taken for the slow path.
ChatSlowAcquire(c) ==
    /\ th[c].pc = "chat_acquire"
    /\ lock = NoHolder
    /\ lock' = c
    /\ th' = [th EXCEPT ![c].pc = "chat_build"]
    /\ UNCHANGED <<users, heap, active_chats, services, disk, ROLES_CONFIG, split, boot, owner, ops>>

\* _get_active_chat, lines 315-330, with the lock held: the second test, the
\* factory by mode, the construction, the insertion; the lock is released on
\* every way out.  handle_message then answers "no active session" for None.
ChatSlowBuild(c) ==
    /\ th[c].pc = "chat_build"
    /\ lock = c
    /\ lock' = LockReleased(c)
    /\ LET info == heap[th[c].sinfo]
           sid == info.session_id
           built == CreateService(info)
       IN  IF DoubleCheckHit(active_chats, sid)
           THEN /\ th' = [th EXCEPT ![c] = AfterChat(c, active_chats[sid])]
                /\ UNCHANGED <<active_chats, services>>
           ELSE IF info.session_mode \notin Factories \/ ~built.ok
           THEN /\ th' = [th EXCEPT ![c] = AfterChat(c, NoChat)]
                /\ UNCHANGED <<active_chats, services>>
           ELSE /\ services' = Append(services, built.svc)
                /\ active_chats' = [s \in DOMAIN active_chats \cup {sid} |->
                                      IF s = sid THEN Len(services) + 1 ELSE active_chats[s]]
                /\ th' = [th EXCEPT ![c] = AfterChat(c, Len(services) + 1)]
    /\ UNCHANGED <<users, heap, disk, ROLES_CONFIG, split, boot, owner, ops>>

\* handle_message, line 130: chat.get_response(message) on the instance the
\* caller holds.  The model call returns, and the user message and the reply
\* are appended to the history, or it raises and nothing is appended.  On
\* None the attribute lookup itself raises.
GetResponse(c) ==
    /\ th[c].pc = "respond"
    /\ \/ /\ th[c].chat # NoChat
          /\ services' = [services EXCEPT ![th[c].chat].history = @ + 2]
          /\ th' = [th EXCEPT ![c] = Finish(c, "Reply")]
       \/ /\ services' = services
          /\ th' = [th EXCEPT ![c] = Finish(c, "Raised")]
    /\ UNCHANGED <<users, heap, active_chats, lock, disk, ROLES_CONFIG, split, boot, owner, ops>>

\* get_response of both chat services, up to the model call: the prompt is
\* built from the history as it is now.
BuildPrompt(c) ==
    /\ th[c].pc = "respond"
    /\ th[c].chat # NoChat
    /\ th' = [th EXCEPT ![c].pc = "llm_chat",
                        ![c].prompt = PromptHistory(services[th[c].chat])]
    /\ UNCHANGED <<users, heap, active_chats, services, lock, disk, ROLES_CONFIG, split, boot, owner, ops>>

\* self.llm.chat(messages): the model call returns a reply, or it raises
\* and get_response is left.
LlmChat(c) ==
    /\ th[c].pc = "llm_chat"
    /\ \/ th' = [th EXCEPT ![c].pc = "update_history"]
       \/ th' = [th EXCEPT ![c] = Finish(c, "Raised")]
    /\ UNCHANGED <<users, heap, active_chats, services, lock, disk, ROLES_CONFIG, split, boot, owner, ops>>

\* After the model call: the user message and the reply are appended to the
\* history and the reply is returned.  PWVNRoleplayChatService then writes
\* the chat store to its file (_save_session), which can raise.
UpdateHistory(c) ==
    /\ th[c].pc = "update_history"
    /\ services' = [services EXCEPT ![th[c].chat].history = AppendTurn(@)]
    /\ \/ th' = [th EXCEPT ![c] = Finish(c, "Reply")]
       \/ /\ services[th[c].chat].kind = "pwvn"
          /\ th' = [th EXCEPT ![c] = Finish(c, "Raised")]
    /\ UNCHANGED <<users, heap, active_chats, lock, disk, ROLES_CONFIG, split, boot, owner, ops>>

\* The session that holds session_id in its sessions map, as the loop of
\* _update_session_config finds it (lines 338-340).
SessionExists(session_id) ==
    \E u \in DOMAIN users : session_id \in Range(users[u].sessions)

\* _update_session_config, lines 336-345, called by the chat service the
\* caller is inside of, for the session id bound into the callback at line
\* 323: the lock is taken, the keys are merged into the session's config and
\* _save_user_profile is called with the lock still held.  For an id no user
\* has, only the warning is logged.
UpdateSessionConfig(c) ==
    /\ th[c].pc = "respond"
    /\ th[c].chat # NoChat
    /\ lock = NoHolder
    /\ LET session_id == services[th[c].chat].session_id
       IN  IF SessionExists(session_id)
           THEN /\ heap' = [heap EXCEPT ![session_id].config = NewConfigData @@ @]
                /\ lock' = c
                /\ th' = [th EXCEPT ![c].pc = "cfg_save"]
           ELSE UNCHANGED <<heap, lock, th>>
    /\ UNCHANGED <<users, active_chats, services, disk, ROLES_CONFIG, split, boot, owner, ops>>

\* _handle_switch_llm, lines 280-285: the model is made from its name and
\* bound to the instance the caller holds; any raise becomes a reply.
SwitchLlmCommit(c) ==
    /\ th[c].pc = "switch_llm"
    /\ LET new_llm == GetLlmByName(th[c].msg.args[1])
       IN  IF new_llm.ok
           THEN /\ services' = [services EXCEPT
                                  ![th[c].chat] = SwitchLlm(@, new_llm.llm)]
                /\ th' = [th EXCEPT ![c] = Finish(c, "LlmSwitched")]
           ELSE /\ services' = services
                /\ th' = [th EXCEPT ![c] = Finish(c, "LlmFailed")]
    /\ UNCHANGED <<users, heap, active_chats, lock, disk, ROLES_CONFIG, split, boot, owner, ops>>

\* core/admin.py, admin_required: the wrapped method runs only for a
\* user_id in ADMIN_USER_IDS; for any other NotAdminError is raised.
AdminRequiredAny(user_id) == TRUE

AdminRequired(user_id) == user_id \in ADMIN_USER_IDS

\* AdminService.handle_command, with handle_message lines 113-117: what
\* follows the first word selects the operation; NotAdminError from the
\* decorator becomes the reply.
AdminHandleCommand(c) ==
    /\ th[c].pc = "admin"
    /\ LET rest == IF th[c].msg.args = <<>> THEN "" ELSE th[c].msg.args[1]
       IN  IF rest \in TriggerWords
           THEN IF AdminRequired(th[c].user)
                THEN th' = [th EXCEPT ![c].pc = "admin_job"]
                ELSE th' = [th EXCEPT ![c] = Finish(c, "NotAdmin")]
           ELSE th' = [th EXCEPT ![c] = Finish(c, "CommandNotFound")]
    /\ UNCHANGED <<users, heap, active_chats, services, lock, disk, ROLES_CONFIG, split, boot, owner, ops>>

\* AdminService.trigger_news_job_manually, with handle_message lines
\* 118-120: the report job runs; it returns, or what it raises becomes the
\* "Admin command failed" reply.
TriggerNewsJobManually(c) ==
    /\ th[c].pc = "admin_job"
    /\ \/ th' = [th EXCEPT ![c] = Finish(c, "JobTriggered")]
       \/ th' = [th EXCEPT ![c] = Finish(c, "AdminFailed")]
    /\ UNCHANGED <<users, heap, active_chats, services, lock, disk, ROLES_CONFIG, split, boot, owner, ops>>

\* The admin commands, beside free text.
NextAdmin ==
    \E c \in Callers :
        \/ HandleAdminMessage(c)
        \/ GetActiveSessionInfoLocked(c)
        \/ AdminHandleCommand(c)
        \/ TriggerNewsJobManually(c)

\* adapters/onebot_adapter.py, OneBotV11Pusher._split_message.  Messages are
\* sequences of characters, a newline or any other; MAX_LENGTH is scaled
\* down from 3500 with the lengths of the messages.
Newline == "\n"

SplitMessages == UNION { [1..n -> {"x", Newline}] : n \in 0..MaxMessageLen }

\* message[start:end], with the indices of Python.
Slice(message, start, end) == SubSeq(message, start + 1, end)

\* str.rfind: the highest index of the character, -1 when there is none.
RFind(snippet, ch) ==
    LET at == { i \in 1..Len(snippet) : snippet[i] = ch }
    IN  IF at = {} THEN -1 ELSE (CHOOSE i \in at : \A j \in at : j <= i) - 1

Min(a, b) == IF a <= b THEN a ELSE b

\* Lines 38-45: the end of the next part.
SplitEnd(message, start) ==
    LET length == Len(message)
        end == Min(start + MAX_LENGTH, length)
        nl == RFind(Slice(message, start, end), Newline)
    IN  IF end < length /\ nl # -1 THEN start + nl ELSE end

\* One test of the loop condition (line 37) and, when it holds, one pass of
\* the body (lines 38-47); the run is cut off after MaxParts parts.
SplitLoop ==
    /\ split.pc = "loop"
    /\ IF split.start < Len(split.message)
       THEN /\ Len(split.parts) < MaxParts
            /\ LET end == SplitEnd(split.message, split.start)
               IN  split' = [split EXCEPT
                               !.parts = Append(@, Slice(split.message, split.start, end)),
                               !.start = end]
       ELSE split' = [split EXCEPT !.pc = "returned"]
    /\ UNCHANGED <<users, heap, active_chats, services, lock, disk, ROLES_CONFIG, th, owner, ops, boot>>

InitSplit ==
    /\ users = EmptyStore.users
    /\ heap = EmptyStore.heap
    /\ active_chats = [s \in {} |-> 0]
    /\ services = <<>>
    /\ lock = NoHolder
    /\ disk = [exists |-> FALSE, json |-> FALSE, doc |-> <<>>]
    /\ ROLES_CONFIG = NominalRoles
    /\ th = [c \in Callers |-> IdleRec]
    /\ owner = [s \in {} |-> 0]
    /\ ops = 0
    /\ boot = Ready
    /\ \E message \in SplitMessages :
         split = [pc |-> "loop", message |-> message, start |-> 0, parts |-> <<>>]

NextSplit == SplitLoop

\* The loop goes on while it can.
SpecSplit == InitSplit /\ [][NextSplit]_vars /\ WF_vars(SplitLoop)

\* _load_all_users, lines 50-52 and 69-70: the file is opened and parsed; a
\* missing file and content that is no JSON leave the store empty.
LoadOpen ==
    /\ boot.pc = "load_open"
    /\ IF ~disk.exists \/ ~disk.json
       THEN /\ users' = EmptyStore.users
            /\ boot' = Ready
       ELSE /\ users' = users
            /\ boot' = [pc |-> "load_entry", i |-> 1]
    /\ UNCHANGED <<heap, active_chats, services, lock, disk, ROLES_CONFIG, split, th, owner, ops>>

\* _load_all_users, lines 53-68: the next item of raw_data is loaded; what it
\* raises leaves __init__, with the items loaded before it in the store.
LoadNext ==
    /\ boot.pc = "load_entry"
    /\ IF boot.i > Len(disk.doc)
       THEN /\ boot' = Ready
            /\ UNCHANGED <<users, heap, owner>>
       ELSE LET loaded == LoadEntry([ok |-> TRUE, users |-> users, heap |-> heap],
                                    disk.doc[boot.i][1], disk.doc[boot.i][2])
            IN  IF loaded.ok
                THEN /\ users' = loaded.users
                     /\ heap' = loaded.heap
                     /\ owner' = OwnerOf(loaded.users)
                     /\ boot' = [boot EXCEPT !.i = @ + 1]
                ELSE /\ boot' = [boot EXCEPT !.pc = "raised"]
                     /\ UNCHANGED <<users, heap, owner>>
    /\ UNCHANGED <<active_chats, services, lock, disk, ROLES_CONFIG, split, th, ops>>

\* The start of the service on each of the users files.
InitBoot ==
    /\ users = EmptyStore.users
    /\ heap = EmptyStore.heap
    /\ active_chats = [s \in {} |-> 0]
    /\ services = <<>>
    /\ lock = NoHolder
    /\ disk \in BootFiles
    /\ ROLES_CONFIG = NominalRoles
    /\ th = [c \in Callers |-> IdleRec]
    /\ owner = [s \in {} |-> 0]
    /\ ops = 0
    /\ boot = [pc |-> "load_open", i |-> 0]
    /\ split = NoSplit

NextBoot == LoadOpen \/ LoadNext

SpecBoot == InitBoot /\ [][NextBoot]_vars

SpecAdmin == Init /\ [][NextAdmin]_vars

\* A store in which user 1 has one session, of either mode, whose chat
\* service is cached and has answered some messages already: its history
\* is short, or about as long as the window of the prompt.
HistoryLengths ==
    { h \in 0..MaxHistory : h % 2 = 0 /\ (h <= 2 \/ h >= HistoryWindow - 2) }

InitHistory ==
    /\ \E args \in {<<"plain">>, <<"pwvn", "Dave", "Dean">>}, h \in HistoryLengths :
         LET id == IdSeq[1]
             info == NewSessionInfo(id, args)
         IN  /\ ROLES_CONFIG = NominalRoles
             /\ users = (1 :> [user_id |-> 1, active_session_id |-> id, sessions |-> <<id>>])
             /\ heap = (id :> info)
             /\ services = << [CreateService(info).svc EXCEPT !.history = h] >>
             /\ active_chats = (id :> 1)
             /\ owner = (id :> 1)
    /\ lock = NoHolder
    /\ disk = [exists |-> TRUE, json |-> TRUE, doc |-> JsonDump(Serialize)]
    /\ th = [c \in Callers |-> IdleRec]
    /\ ops = 0
    /\ boot = Ready
    /\ split = NoSplit

NextHistory ==
    \E c \in Callers :
        \/ HandleHistoryMessage(c)
        \/ GetActiveSessionInfoLocked(c)
        \/ GetActiveSessionInfoRead(c)
        \/ GetActiveSessionInfoGet(c)
        \/ ChatFastCheck(c)
        \/ ChatFastGet(c)
        \/ BuildPrompt(c)
        \/ LlmChat(c)
        \/ UpdateHistory(c)

SpecHistory == InitHistory /\ [][NextHistory]_vars

Next ==
    \E c \in Callers :
        \/ HandleMessage(c)
        \/ NewSessionCommit(c)
        \/ SwitchSessionCommit(c)
        \/ DeleteSessionCommit(c)
        \/ SaveUserProfile(c)
        \/ GetActiveSessionInfoLocked(c)
        \/ GetActiveSessionInfoRead(c)
        \/ GetActiveSessionInfoGet(c)
        \/ ModifyRoleCommit(c)
        \/ ModifyRoleInvalidate(c)
        \/ ChatFastCheck(c)
        \/ ChatFastGet(c)
        \/ ChatSlowAcquire(c)
        \/ ChatSlowBuild(c)
        \/ GetResponse(c)

Spec == Init /\ [][Next]_vars

\* The same store under the messages about a live chat service.
NextLive ==
    \E c \in Callers :
        \/ HandleLiveMessage(c)
        \/ NewSessionCommit(c)
        \/ SaveUserProfile(c)
        \/ GetActiveSessionInfoLocked(c)
        \/ GetActiveSessionInfoRead(c)
        \/ GetActiveSessionInfoGet(c)
        \/ ModifyRoleCommit(c)
        \/ ModifyRoleInvalidate(c)
        \/ ChatFastCheck(c)
        \/ ChatFastGet(c)
        \/ ChatSlowAcquire(c)
        \/ ChatSlowBuild(c)
        \/ GetResponse(c)
        \/ SwitchLlmCommit(c)

SpecLive == Init /\ [][NextLive]_vars

\* The store with chat services that call their config_updater.
NextUpdater ==
    \E c \in Callers :
        \/ HandleUpdaterMessage(c)
        \/ NewSessionCommit(c)
        \/ SaveUserProfile(c)
        \/ GetActiveSessionInfoLocked(c)
        \/ GetActiveSessionInfoRead(c)
        \/ GetActiveSessionInfoGet(c)
        \/ ModifyRoleCommit(c)
        \/ ModifyRoleInvalidate(c)
        \/ ChatFastCheck(c)
        \/ ChatFastGet(c)
        \/ ChatSlowAcquire(c)
        \/ ChatSlowBuild(c)
        \/ GetResponse(c)
        \/ UpdateSessionConfig(c)

SpecUpdater == Init /\ [][NextUpdater]_vars

\* Every thread that can take a step takes one in the end.
SpecUpdaterFair == SpecUpdater /\ WF_vars(NextUpdater)

\* The service started on the legacy users file and the roles file with an
\* empty description.
InitFaulty ==
    /\ users = LoadUsers(LegacyDoc)
    /\ heap = LoadHeap(LegacyDoc)
    /\ active_chats = [s \in {} |-> 0]
    /\ services = <<>>
    /\ lock = NoHolder
    /\ disk = [exists |-> TRUE, json |-> TRUE, doc |-> LegacyDoc]
    /\ ROLES_CONFIG = FaultyRoles
    /\ th = [c \in Callers |-> IdleRec]
    /\ owner = LoadOwner(LegacyDoc)
    /\ ops = 0
    /\ boot = Ready
    /\ split = NoSplit

NextFaulty ==
    \E c \in Callers :
        \/ HandleFaultyMessage(c)
        \/ NewSessionCommit(c)
        \/ SaveUserProfile(c)
        \/ GetActiveSessionInfoLocked(c)
        \/ GetActiveSessionInfoRead(c)
        \/ GetActiveSessionInfoGet(c)
        \/ ModifyRoleCommit(c)
        \/ ModifyRoleInvalidate(c)
        \/ ChatFastCheck(c)
        \/ ChatFastGet(c)
        \/ ChatSlowAcquire(c)
        \/ ChatSlowBuild(c)
        \/ GetResponse(c)

SpecFaulty == InitFaulty /\ [][NextFaulty]_vars

----------------------------------------------------------------------------
\* Vocabulary of the properties.

\* The profile of a user, empty when the user has none yet.
ProfileOf(us, u) == GetOrCreateUser(us, u)[u]

Cmd(c) == th[c].msg.cmd

NeverHadSession(u) == \A s \in DOMAIN owner : owner[s] # u

\* The caller moved in this step.
Moved(c) == th'[c] # th[c]

Restrict(f, S) == [x \in S |-> f[x]]

----------------------------------------------------------------------------
\* C1: in every reachable state, each user's active_session_id is null or a
\* key of that same user's sessions map.
ActiveSessionExists ==
    \A u \in DOMAIN users :
        \/ users[u].active_session_id = NoSession
        \/ users[u].active_session_id \in Range(users[u].sessions)

\* A delete has removed a session and the user still has an active one.
ActiveSessionExistsWitness ==
    \E c \in Callers :
        /\ th[c].pc = "save"
        /\ Cmd(c) = "/dels"
        /\ th[c].sinfo \notin Range(users[th[c].user].sessions)
        /\ users[th[c].user].active_session_id # NoSession

----------------------------------------------------------------------------
\* C2: two callers that both find no cached service for the same session
\* get one and the same instance, and the factory constructs exactly one
\* service for that session between their cache miss and their return.
InSlowPath(c) ==
    /\ Cmd(c) = "text"
    /\ th[c].pc \in {"chat_acquire", "chat_build", "respond"}
    /\ th[c].seen >= 0

BuiltSince(session_id, n) ==
    { i \in (n + 1)..Len(services) : services[i].session_id = session_id }

SingleFlight ==
    \A c1 \in Callers, c2 \in Callers :
        ( /\ c1 # c2
          /\ InSlowPath(c1) /\ InSlowPath(c2)
          /\ th[c1].sinfo = th[c2].sinfo
          /\ th[c1].seen = th[c2].seen )
        => LET built == BuiltSince(th[c1].sinfo, th[c1].seen)
           IN  /\ Cardinality(built) <= 1
               /\ th[c1].pc = "respond" => built = {th[c1].chat}
               /\ th[c1].pc = "respond" => active_chats[th[c1].sinfo] = th[c1].chat

\* Both callers missed the cache at the same moment and both hold a service.
SingleFlightWitness ==
    /\ InSlowPath("c1") /\ InSlowPath("c2")
    /\ th["c1"].sinfo = th["c2"].sinfo
    /\ th["c1"].seen = th["c2"].seen
    /\ th["c1"].pc = "respond" /\ th["c2"].pc = "respond"
    /\ th["c1"].chat = th["c2"].chat

----------------------------------------------------------------------------
\* C3: free text from a user for whom no session was ever created is
\* answered with the "no active session" reply, not an error, and no chat
\* service is constructed for such a user.
NoSessionReply ==
    /\ \A c \in Callers :
         (th[c].pc = "done" /\ Cmd(c) = "text" /\ NeverHadSession(th[c].user))
         => th[c].reply = "NoActive"
    /\ \A i \in 1..Len(services) : services[i].session_id \in DOMAIN owner

NoSessionReplyWitness ==
    \E c \in Callers :
        /\ th[c].pc = "done" /\ Cmd(c) = "text"
        /\ NeverHadSession(th[c].user)
        /\ th[c].reply = "NoActive"

----------------------------------------------------------------------------
\* C4: the step of create-session that changes the store appends exactly
\* one new entry to the user's sessions, makes it the active session, removes
\* the cached service of the session active before and no other, and leaves
\* the user's other sessions and the other users as they were.
CreateSessionStep(c) ==
    LET u == th[c].user
        id == th[c].sinfo
        old == ProfileOf(users, u)
    IN  (th[c].pc = "new_commit" /\ th'[c].pc = "save")
        => /\ id \notin Range(old.sessions)
           /\ users'[u].sessions = Append(old.sessions, id)
           /\ users'[u].active_session_id = id
           /\ heap'[id].session_id = id
           /\ \A s \in Range(old.sessions) : heap'[s] = heap[s]
           /\ active_chats' =
                 Restrict(active_chats, DOMAIN active_chats \ {old.active_session_id})
           /\ \A v \in DOMAIN users \ {u} : users'[v] = users[v]

CreateSession == [][\A c \in Callers : CreateSessionStep(c)]_vars

\* A create-session has just evicted the service of the session that was
\* active before it.
CreateSessionWitness ==
    \E c \in Callers :
        /\ th[c].pc = "save" /\ Cmd(c) = "/new"
        /\ \E i \in 1..Len(services) :
             /\ services[i].session_id \in Range(users[th[c].user].sessions)
             /\ services[i].session_id # th[c].sinfo
             /\ services[i].session_id \notin DOMAIN active_chats

----------------------------------------------------------------------------
\* C5: a create-session whose arguments fail validation (no mode, a mode
\* with no factory, fewer than two roles for 'pwvn', a bot role outside the
\* known roles) is answered with a corrective message in the step that reads
\* it, and that step changes neither the store, the cache nor the disk.
NewArgsValid(parts) ==
    /\ Len(parts) >= 1
    /\ parts[1] \in Factories
    /\ parts[1] = "pwvn" => (Len(parts) >= 3 /\ parts[3] \in DOMAIN ROLES_CONFIG)

NewCorrective == {"NewUsage", "UnknownMode", "PwvnUsage", "InvalidRole"}

RejectedCreateStep(c) ==
    ( /\ ops' = ops + 1
      /\ \A d \in Callers \ {c} : th'[d] = th[d]
      /\ th[c].pc \in {"idle", "done"}
      /\ th'[c].msg.cmd = "/new"
      /\ ~NewArgsValid(th'[c].msg.args) )
    => /\ th'[c].pc = "done"
       /\ th'[c].reply \in NewCorrective
       /\ UNCHANGED <<users, heap, active_chats, services, disk>>

RejectedCreate == [][\A c \in Callers : RejectedCreateStep(c)]_vars

RejectedCreateWitness ==
    \E c \in Callers :
        /\ th[c].pc = "done" /\ Cmd(c) = "/new"
        /\ th[c].msg.args = <<"pwvn", "Dave", "Nobody">>
        /\ th[c].reply = "InvalidRole"
        /\ th[c].user \in DOMAIN users
        /\ users[th[c].user].sessions # <<>>

----------------------------------------------------------------------------
\* C6: a bot-role switch to a name outside the known roles, for a user whose
\* active session is a 'pwvn' one, is answered with the validation message;
\* no step of the command changes a SessionInfo (heap holds user_role,
\* bot_role and config of every session), a sessions map, an active pointer
\* or the cache, and the command never reaches the save.
UnknownBotRoleStep(c) ==
    ( /\ Cmd(c) = "/sbr"
      /\ th[c].msg.args[1] \notin DOMAIN ROLES_CONFIG
      /\ th[c].pc \in {"gasi_lock", "gasi_read", "gasi_get", "role_commit"}
      /\ Moved(c) )
    => /\ th[c].pc = "role_commit" =>
             (th'[c].pc = "done" /\ th'[c].reply = "InvalidRole")
       /\ th'[c].pc \notin {"role_evict", "save"}
       /\ \A v \in DOMAIN users : users'[v] = users[v]
       /\ UNCHANGED <<heap, active_chats>>

UnknownBotRole == [][\A c \in Callers : UnknownBotRoleStep(c)]_vars

UnknownBotRoleWitness ==
    \E c \in Callers :
        /\ th[c].pc = "done" /\ Cmd(c) = "/sbr"
        /\ th[c].reply = "InvalidRole"
        /\ \E s \in Range(users[th[c].user].sessions) : heap[s].bot_role = "Dean"

----------------------------------------------------------------------------
\* C7: a role switch that passes validation sets exactly the role field it
\* names, in the session it read as active, and then, before it releases the
\* lock, removes that session's cached service and no other; outside that
\* lock block the cache never holds a service built with other roles than
\* the session's, and the next resolve of the session constructs a new
\* service with the roles then in force.
RoleSwitchStep(c) ==
    LET s == th[c].sinfo
        role_name == th[c].msg.args[1]
    IN  /\ (th[c].pc = "role_commit" /\ th'[c].pc = "role_evict")
            => /\ Cmd(c) = "/sbr" =>
                    (role_name \in DOMAIN ROLES_CONFIG
                       /\ heap' = [heap EXCEPT ![s].bot_role = role_name])
               /\ Cmd(c) = "/sur" => heap' = [heap EXCEPT ![s].user_role = role_name]
               /\ lock' = c
               /\ UNCHANGED <<users, active_chats>>
        /\ (th[c].pc = "role_evict" /\ Moved(c))
            => /\ th'[c].pc = "save"
               /\ active_chats' = Restrict(active_chats, DOMAIN active_chats \ {s})
               /\ lock' = NoHolder
               /\ UNCHANGED <<users, heap>>

RebuildStep(c) ==
    LET s == th[c].sinfo
    IN  (th[c].pc = "chat_build" /\ Moved(c) /\ s \notin DOMAIN active_chats)
        => /\ Len(services') = Len(services) + 1
           /\ th'[c].pc = "respond"
           /\ th'[c].chat = Len(services')
           /\ active_chats'[s] = Len(services')
           /\ services'[Len(services')].session_id = s
           /\ heap[s].session_mode = "pwvn" =>
                /\ services'[Len(services')].user_role = heap[s].user_role
                /\ services'[Len(services')].bot_role = heap[s].bot_role

InRoleBlock(s) == \E c \in Callers : th[c].pc = "role_evict" /\ th[c].sinfo = s

CachedRolesCurrent ==
    \A s \in DOMAIN active_chats :
        (heap[s].session_mode = "pwvn" /\ ~InRoleBlock(s)) =>
            /\ services[active_chats[s]].user_role = heap[s].user_role
            /\ services[active_chats[s]].bot_role = heap[s].bot_role

RoleSwitch ==
    /\ []CachedRolesCurrent
    /\ [][\A c \in Callers : RoleSwitchStep(c) /\ RebuildStep(c)]_vars

\* A role switch has just evicted the service built with the old roles.
RoleSwitchWitness ==
    \E c \in Callers :
        /\ th[c].pc = "save" /\ Cmd(c) \in {"/sbr", "/sur"}
        /\ th[c].sinfo \notin DOMAIN active_chats
        /\ \E i \in 1..Len(services) :
             /\ services[i].session_id = th[c].sinfo
             /\ \/ services[i].bot_role # heap[th[c].sinfo].bot_role
                \/ services[i].user_role # heap[th[c].sinfo].user_role

----------------------------------------------------------------------------
\* C8: a switch-role command goes on to its change only with a session that
\* it read as the user's active one and that is a 'pwvn' session of the user;
\* when it finds no active session, or the session it read is gone or has
\* another mode, it is answered with the refusal; none of its steps up to
\* that decision changes a SessionInfo, the cache or a service.
IsPwvnSessionOf(u, s) ==
    /\ u \in DOMAIN users
    /\ s \in Range(users[u].sessions)
    /\ heap[s].session_mode = "pwvn"

RoleCommandGateStep(c) ==
    LET u == th[c].user
        refused == th'[c].pc = "done" /\ th'[c].reply = "OnlyPwvn"
    IN  ( /\ Cmd(c) \in {"/sbr", "/sur"}
          /\ th[c].pc \in {"gasi_lock", "gasi_read", "gasi_get"}
          /\ Moved(c) )
        => /\ (th[c].pc = "gasi_lock"
                  /\ ProfileOf(users, u).active_session_id = NoSession) => refused
           /\ th[c].pc = "gasi_read" =>
                 (th'[c].pc = "gasi_get"
                    /\ th'[c].sinfo = users[u].active_session_id)
           /\ (th[c].pc = "gasi_get" /\ ~IsPwvnSessionOf(u, th[c].sinfo)) => refused
           /\ th'[c].pc = "role_commit" =>
                 (th'[c].sinfo = th[c].sinfo /\ IsPwvnSessionOf(u, th[c].sinfo))
           /\ th'[c].pc = "done" => refused
           /\ UNCHANGED <<heap, active_chats, services>>

RoleCommandGate == [][\A c \in Callers : RoleCommandGateStep(c)]_vars

\* The refusal was given to a user whose active session is a 'plain' one.
RoleCommandGateWitness ==
    \E c \in Callers :
        /\ th[c].pc = "done" /\ Cmd(c) \in {"/sbr", "/sur"}
        /\ th[c].reply = "OnlyPwvn"
        /\ users[th[c].user].active_session_id # NoSession
        /\ heap[users[th[c].user].active_session_id].session_mode = "plain"

----------------------------------------------------------------------------
\* C9: in every state reachable from the empty store, the bot_role of every
\* 'pwvn' session of every user is one of the known roles.
BotRolesKnown ==
    \A u \in DOMAIN users :
        \A s \in Range(users[u].sessions) :
            heap[s].session_mode = "pwvn" => heap[s].bot_role \in DOMAIN ROLES_CONFIG

\* A session whose bot role was switched after its creation.
BotRolesKnownWitness ==
    \E u \in DOMAIN users :
        \E s \in Range(users[u].sessions) :
            heap[s].session_mode = "pwvn" /\ heap[s].bot_role = "Ann"

----------------------------------------------------------------------------
\* C10: deleting the active session makes another remaining session of the
\* user active when one remains and sets active to null when none does; the
\* active pointer does not refer to the deleted id afterwards.
DeleteActiveStep(c) ==
    LET u == th[c].user
        target_id == th'[c].sinfo
    IN  ( /\ th[c].pc = "dels_commit" /\ th'[c].pc = "save"
          /\ ProfileOf(users, u).active_session_id = target_id )
        => /\ target_id \notin Range(users'[u].sessions)
           /\ users'[u].active_session_id # target_id
           /\ users'[u].sessions # <<>> =>
                users'[u].active_session_id \in Range(users'[u].sessions)
           /\ users'[u].sessions = <<>> => users'[u].active_session_id = NoSession

\* A session that was removed from its user's sessions map.
Deleted(s) == s \in DOMAIN owner /\ s \notin Range(users[owner[s]].sessions)

DeletedNeverActive ==
    \A s \in DOMAIN owner : Deleted(s) => users[owner[s]].active_session_id # s

DeleteActive ==
    /\ []DeletedNeverActive
    /\ [][\A c \in Callers : DeleteActiveStep(c)]_vars

\* The deleted session is the one the last save recorded as active, and
\* another session of the user is active now.
DeleteActiveWitness ==
    \E c \in Callers :
        /\ th[c].pc = "save" /\ Cmd(c) = "/dels"
        /\ disk.exists
        /\ \E i \in 1..Len(disk.doc) :
             /\ disk.doc[i][1] = JsonKey(th[c].user)
             /\ disk.doc[i][2].active_session_id = th[c].sinfo
        /\ users[th[c].user].active_session_id # NoSession
        /\ users[th[c].user].active_session_id # th[c].sinfo

----------------------------------------------------------------------------
\* C11: once a delete-session of session s has returned, the cache holds no
\* chat service for s, whether or not s was the active session and whatever
\* resolve calls run beside the delete.
DeleteReturned(s) ==
    /\ Deleted(s)
    /\ ~\E c \in Callers : th[c].pc = "save" /\ Cmd(c) = "/dels" /\ th[c].sinfo = s

DeletedNotCached == \A s \in DOMAIN owner : DeleteReturned(s) => s \notin DOMAIN active_chats

----------------------------------------------------------------------------
\* The sessions of user u whose id starts with the prefix.
Matches(u, prefix) ==
    { s \in Range(ProfileOf(users, u).sessions) : StartsWith(s, prefix) }

SameProfile(u) ==
    /\ users'[u].sessions = ProfileOf(users, u).sessions
    /\ users'[u].active_session_id = ProfileOf(users, u).active_session_id

\* C12: the step of switch-session that changes the store sets the user's
\* active session to a session t of the user whose id starts with the given
\* prefix, removes the cached service of the session active before and no
\* other, and leaves the sessions map, every SessionInfo and the other users
\* as they were.
SwitchSessionStep(c) ==
    LET u == th[c].user
        t == th'[c].sinfo
        old == ProfileOf(users, u)
    IN  (th[c].pc = "ss_commit" /\ th'[c].pc = "save")
        => /\ t \in Matches(u, th[c].msg.prefix)
           /\ users'[u].active_session_id = t
           /\ users'[u].sessions = old.sessions
           /\ active_chats' =
                 Restrict(active_chats, DOMAIN active_chats \ {old.active_session_id})
           /\ \A v \in DOMAIN users \ {u} : users'[v] = users[v]
           /\ UNCHANGED heap

----------------------------------------------------------------------------
\* C13: a switch-session whose prefix matches more than one of the user's
\* sessions is answered with a corrective message and changes neither the
\* active pointer nor the cache.
AmbiguousSwitchStep(c) ==
    ( /\ th[c].pc = "ss_commit"
      /\ Moved(c)
      /\ Cardinality(Matches(th[c].user, th[c].msg.prefix)) > 1 )
    => /\ th'[c].pc = "done"
       /\ th'[c].reply = "Ambiguous"
       /\ SameProfile(th[c].user)
       /\ UNCHANGED active_chats

AmbiguousSwitch == [][\A c \in Callers : AmbiguousSwitchStep(c)]_vars

----------------------------------------------------------------------------
\* C14: a switch-session or delete-session whose prefix matches none of the
\* user's sessions, and a delete-session whose prefix matches several, is
\* answered with a corrective message and changes neither the user's
\* sessions map, nor the active pointer, nor the cache.
RefusedPrefix(c) ==
    LET n == Cardinality(Matches(th[c].user, th[c].msg.prefix))
    IN  \/ th[c].pc = "ss_commit" /\ n = 0
        \/ th[c].pc = "dels_commit" /\ n # 1

RefusedPrefixStep(c) ==
    (RefusedPrefix(c) /\ Moved(c))
    => /\ th'[c].pc = "done"
       /\ th'[c].reply =
             (IF Matches(th[c].user, th[c].msg.prefix) = {} THEN "NotFound" ELSE "Ambiguous")
       /\ SameProfile(th[c].user)
       /\ UNCHANGED <<heap, active_chats, services, disk>>

RefusedPrefixFrame == [][\A c \in Callers : RefusedPrefixStep(c)]_vars

\* A delete-session was refused for a prefix that two sessions share.
RefusedPrefixWitness ==
    \E c \in Callers :
        /\ th[c].pc = "done" /\ Cmd(c) = "/dels"
        /\ th[c].reply = "Ambiguous"
        /\ Len(users[th[c].user].sessions) = 2

----------------------------------------------------------------------------
\* C20: a caller never holds the lock while the chat service it resolved
\* produces the reply (the model call of get_response), and the reply step
\* does not touch the lock, so the other callers can take it meanwhile.
ReplyStep(c) ==
    (th[c].pc = "respond" /\ Moved(c)) => (lock # c /\ lock' = lock)

ReplyUnlocked ==
    /\ [](\A c \in Callers : th[c].pc = "respond" => lock # c)
    /\ [][\A c \in Callers : ReplyStep(c)]_vars

\* One caller is inside get_response while the other one holds the lock.
ReplyUnlockedWitness ==
    \E c \in Callers, d \in Callers :
        /\ c # d
        /\ th[c].pc = "respond"
        /\ lock = d

----------------------------------------------------------------------------
\* C15: a switch-model that finds the live chat service of the active
\* session in the cache changes nothing but the model bound to that
\* instance: every SessionInfo (id, mode, roles, config), the sessions maps
\* and active pointers, the persisted document, the cache (which instance is
\* cached for which session) and every history length stay as they were.
SwitchModelStep(c) ==
    LET cached == th[c].sinfo \in DOMAIN active_chats
    IN  ( /\ Cmd(c) = "/sl"
          /\ Moved(c)
          /\ \/ th[c].pc \in {"gasi_lock", "gasi_read", "gasi_get", "chat_check",
                              "chat_get", "chat_acquire", "switch_llm"}
             \/ th[c].pc = "chat_build" /\ cached )
        => /\ SameProfile(th[c].user)
           /\ UNCHANGED <<heap, disk, active_chats>>
           /\ IF th[c].pc = "switch_llm" /\ th'[c].reply = "LlmSwitched"
              THEN /\ th[c].msg.args[1] = "deepseek-chat"
                   /\ services' = [services EXCEPT ![th[c].chat].llm = th[c].msg.args[1]]
              ELSE services' = services

SwitchModel == [][\A c \in Callers : SwitchModelStep(c)]_vars

\* The model of a cached service with a history was switched.
SwitchModelWitness ==
    \E c \in Callers :
        /\ th[c].pc = "done" /\ Cmd(c) = "/sl"
        /\ th[c].reply = "LlmSwitched"
        /\ \E s \in DOMAIN active_chats :
             /\ services[active_chats[s]].llm = "deepseek-chat"
             /\ services[active_chats[s]].history > 0

----------------------------------------------------------------------------
\* C16: a switch-model constructs no chat service: when the cache holds no
\* service for the user's active session, the command ends with its 'no
\* active session' reply and the cache and the services stay as they were.
SwitchModelOnMissStep(c) ==
    (Cmd(c) = "/sl" /\ Moved(c) /\ th[c].pc \notin {"idle", "done"})
    => /\ Len(services') = Len(services)
       /\ UNCHANGED active_chats
       /\ (th[c].pc = "chat_build" /\ th[c].sinfo \notin DOMAIN active_chats)
             => (th'[c].pc = "done" /\ th'[c].reply = "NoActiveLlm")

SwitchModelOnMiss == [][\A c \in Callers : SwitchModelOnMissStep(c)]_vars

----------------------------------------------------------------------------
\* C19: whenever a resolve returns a chat service of a 'pwvn' session, the
\* roles the service was constructed with are the roles the SessionInfo has
\* at that moment, whatever role switch runs beside the resolve.
ResolveReturns(c) ==
    /\ th[c].pc \in {"chat_get", "chat_build"}
    /\ th'[c].pc \in {"respond", "switch_llm"}

ResolveFreshStep(c) ==
    LET s == th[c].sinfo
        svc == services'[th'[c].chat]
    IN  (ResolveReturns(c) /\ heap[s].session_mode = "pwvn")
        => /\ svc.session_id = s
           /\ svc.user_role = heap'[s].user_role
           /\ svc.bot_role = heap'[s].bot_role

ResolveFresh == [][\A c \in Callers : ResolveFreshStep(c)]_vars

----------------------------------------------------------------------------
\* C17: when resolve, on a cache miss, finds no factory for the session's
\* mode, or the factory raises (the role-play factory does for a missing
\* role and for a role without description), resolve returns None, which the
\* caller answers with the 'no active session' reply: no exception reaches
\* the caller, nothing is added to the cache or to the services, and the lock
\* is free afterwards.  Nothing records the failure: a later resolve of an
\* uncached session takes the slow path again, and constructs and caches the
\* service once the factory succeeds.
ConstructionFails(info) ==
    \/ info.session_mode \notin Factories
    \/ /\ info.session_mode = "pwvn"
       /\ \/ info.user_role = NoRole
          \/ info.bot_role = NoRole
          \/ info.bot_role \notin DOMAIN ROLES_CONFIG
          \/ ROLES_CONFIG[info.bot_role] = ""

FailedBuildStep(c) ==
    LET s == th[c].sinfo
        miss == s \notin DOMAIN active_chats
    IN  /\ (th[c].pc = "chat_check" /\ Moved(c) /\ miss) => th'[c].pc = "chat_acquire"
        /\ (th[c].pc = "chat_build" /\ Moved(c) /\ miss /\ ConstructionFails(heap[s]))
            => /\ th'[c].pc = "done"
               /\ th'[c].reply = "NoActive"
               /\ lock' = NoHolder
               /\ UNCHANGED <<active_chats, services>>
        /\ (th[c].pc = "chat_build" /\ Moved(c) /\ miss /\ ~ConstructionFails(heap[s]))
            => /\ th'[c].pc = "respond"
               /\ lock' = NoHolder
               /\ s \in DOMAIN active_chats'
               /\ th'[c].chat = active_chats'[s]
               /\ Len(services') = Len(services) + 1

FailedBuild == [][\A c \in Callers : FailedBuildStep(c)]_vars

\* In the runs of SpecFaulty user 2 always has an active session, so the
\* reply shows a resolve that failed; the lock is free and nothing is cached
\* for the session.
FailedBuildWitness ==
    \E c \in Callers :
        /\ th[c].pc = "done" /\ Cmd(c) = "text"
        /\ th[c].user = 2
        /\ th[c].reply = "NoActive"
        /\ lock = NoHolder
        /\ users[2].active_session_id \notin DOMAIN active_chats

----------------------------------------------------------------------------
\* C18: every write to a session's role fields or config is followed, in
\* the lock block that makes it, by the removal of that session's cached
\* service: the role switch has removed it when it leaves its block, and the
\* config update has when its write is done (nothing but the save follows
\* the write in _update_session_config).
MutationEvictsStep(c) ==
    /\ (th[c].pc = "role_evict" /\ Moved(c)) => th[c].sinfo \notin DOMAIN active_chats'
    /\ \A s \in DOMAIN heap :
         heap'[s].config # heap[s].config => s \notin DOMAIN active_chats'

MutationEvicts == [][\A c \in Callers : MutationEvictsStep(c)]_vars

----------------------------------------------------------------------------
\* C21: on a cache miss the factory constructs the service while the lock
\* is not held: every step that constructs a service starts with the lock
\* free (the lock is taken again only for the second test and the insertion).
ConstructUnlocked == [][Len(services') > Len(services) => lock = NoHolder]_vars

----------------------------------------------------------------------------
\* C22: saving the store and loading the saved document into a fresh store
\* gives the same mapping: the same users, for each the same active session
\* id and the same sessions map, and for each session the same session id,
\* mode, user role, bot role and config.
Reloaded == LoadFrom(EmptyStore, JsonDump(Serialize))

RoundTrip ==
    /\ Reloaded.ok
    /\ Reloaded.users = users
    /\ \A u \in DOMAIN users :
         \A s \in Range(users[u].sessions) : Reloaded.heap[s] = heap[s]

----------------------------------------------------------------------------
\* C23: loading the users file never fails the start: with no file, with
\* content that is no JSON, with a key that is no integer and with a value
\* that is a bare session-id string, the load completes; it never raises
\* and never leaves the store filled in part.  A completed load has an
\* empty store for a missing or unparsable file, and every item of the
\* document in the store otherwise.
LoadCompletes ==
    /\ boot.pc # "raised"
    /\ boot.pc = "ready" =>
         IF ~disk.exists \/ ~disk.json THEN DOMAIN users = {}
         ELSE \A i \in 1..Len(disk.doc) :
                /\ IntOf(disk.doc[i][1]).ok
                /\ IntOf(disk.doc[i][1]).value \in DOMAIN users

----------------------------------------------------------------------------
\* C24: when a create-session, switch-session, delete-session or
\* switch-role that reports success returns, the users file holds the store
\* as it is in memory at that moment: an item for every user, with the
\* user's active session id and, in order, the user's sessions with the
\* fields of each; this also when the commands of several users interleave.
SuccessReplies == {"Created", "Switched", "Deleted", "RoleUpdated"}

PersistedEqualsStore(file, us, hp) ==
    /\ file.exists /\ file.json
    /\ Len(file.doc) = Cardinality(DOMAIN us)
    /\ \A u \in DOMAIN us :
         \E i \in 1..Len(file.doc) :
            LET data == file.doc[i][2]
            IN  /\ file.doc[i][1] = JsonKey(u)
                /\ data.active_session_id = us[u].active_session_id
                /\ Len(data.sessions) = Len(us[u].sessions)
                /\ \A k \in 1..Len(us[u].sessions) :
                     data.sessions[k] = <<us[u].sessions[k], hp[us[u].sessions[k]]>>

PersistedStep(c) ==
    (th[c].pc = "save" /\ th'[c].pc = "done" /\ th'[c].reply \in SuccessReplies)
    => PersistedEqualsStore(disk', users', heap')

Persisted == [][\A c \in Callers : PersistedStep(c)]_vars

\* A command of user 1 has returned with success while a command of user 2
\* has changed the store and not saved yet: the file already holds the
\* session user 2 was given.
PersistedWitness ==
    /\ th["c1"].pc = "done" /\ th["c1"].reply \in SuccessReplies
    /\ th["c2"].pc = "save" /\ th["c2"].user = 2 /\ Cmd("c2") = "/new"
    /\ PersistedEqualsStore(disk, users, heap)
    /\ 2 \in DOMAIN users /\ th["c2"].sinfo \in Range(users[2].sessions)

----------------------------------------------------------------------------
\* C25: handle_message ends every call with a string reply: also when the
\* model call of the chat service raises, when the save of a changing
\* command fails and when an admin operation fails, no exception leaves
\* handle_message.
AlwaysReplies == \A c \in Callers : th[c].pc = "done" => th[c].reply # "Raised"

----------------------------------------------------------------------------
\* C29: the report job is forced only for a caller whose id is in the
\* allow-list; for any other caller the job is never started and the reply
\* of handle_message is the not-authorized denial, which no other outcome
\* of an admin command gives.
IsTrigger(c) ==
    /\ Cmd(c) \in AdminCommands
    /\ th[c].msg.args # <<>>
    /\ th[c].msg.args[1] \in TriggerWords

AdminOnly ==
    \A c \in Callers :
        /\ th[c].pc = "admin_job" => th[c].user \in ADMIN_USER_IDS
        /\ (th[c].pc = "done" /\ th[c].reply \in {"JobTriggered", "AdminFailed"})
             => th[c].user \in ADMIN_USER_IDS
        /\ (th[c].pc = "done" /\ Cmd(c) \in AdminCommands)
             => (th[c].reply = "NotAdmin"
                   <=> (IsTrigger(c) /\ th[c].user \notin ADMIN_USER_IDS))

\* A caller outside the list was denied while a caller in the list is
\* running the job.
AdminOnlyWitness ==
    \E c1 \in Callers, c2 \in Callers :
        /\ th[c1].pc = "done" /\ IsTrigger(c1) /\ th[c1].user \notin ADMIN_USER_IDS
        /\ th[c1].reply = "NotAdmin"
        /\ th[c2].pc = "admin_job"

----------------------------------------------------------------------------
\* C26: a chat service appends the user message and the reply to its
\* history only after the model call has returned: the history changes only
\* in the step that follows the returned call, by exactly these two entries,
\* and a call of get_response in which the model call raises leaves the
\* history as it was (no step of it up to the raise writes anything).
HistoryOrderStep(c) ==
    /\ (th[c].pc \in {"respond", "llm_chat"} /\ Moved(c)) => services' = services
    /\ (th[c].pc = "update_history" /\ Moved(c)) =>
         /\ services'[th[c].chat].history = services[th[c].chat].history + 2
         /\ \A i \in 1..Len(services) : i # th[c].chat => services'[i] = services[i]

HistoryOrder ==
    [][ /\ \A c \in Callers : HistoryOrderStep(c)
        /\ services' # services =>
             \E c \in Callers : th[c].pc = "update_history" /\ Moved(c) ]_vars

\* On a service that started with no history, one call has raised and one
\* has replied: the history holds the two entries of the call that replied.
HistoryOrderWitness ==
    /\ th["c1"].pc = "done" /\ th["c1"].reply = "Raised"
    /\ th["c2"].pc = "done" /\ th["c2"].reply = "Reply"
    /\ th["c1"].user = 1 /\ th["c2"].user = 1
    /\ services[1].history = 2

----------------------------------------------------------------------------
\* C27: the prompt a chat service builds for a reply holds at most the 40
\* most recent entries of the history, whichever the service and however
\* long the history, and the stored history keeps every entry.
PromptOf(c) == th[c].prompt.last - th[c].prompt.first + 1

PromptWindowed ==
    /\ [](\A c \in Callers :
            th[c].pc = "llm_chat" =>
               /\ PromptOf(c) <= 40
               /\ th[c].prompt.last >= th[c].prompt.first =>
                    th[c].prompt.last <= services[th[c].chat].history)
    /\ [][\A i \in 1..Len(services) : services'[i].history >= services[i].history]_vars

----------------------------------------------------------------------------
\* C28: the history of a session outlives the removal of its cached chat
\* service: the service constructed anew for a session id starts with the
\* history length the session's last instance had.
InstancesOf(session_id) ==
    { i \in 1..Len(services) : services[i].session_id = session_id }

HistoryKept ==
    [][ Len(services') > Len(services) =>
          LET new == services'[Len(services')]
              before == InstancesOf(new.session_id)
          IN  before # {} =>
                new.history = services[CHOOSE i \in before : \A j \in before : j <= i].history
      ]_vars

----------------------------------------------------------------------------
\* C30: session ids are unique and never change: the id a create-session
\* puts into the store was never in any user's sessions map before, no id
\* is in the maps of two users (or twice in one), every key of a sessions
\* map is the session_id of its entry, and no step changes the session_id
\* of a SessionInfo.
SessionIdsDistinct ==
    /\ \A u1 \in DOMAIN users, u2 \in DOMAIN users :
         u1 # u2 => Range(users[u1].sessions) \cap Range(users[u2].sessions) = {}
    /\ \A u \in DOMAIN users :
         /\ Cardinality(Range(users[u].sessions)) = Len(users[u].sessions)
         /\ \A s \in Range(users[u].sessions) : heap[s].session_id = s

SessionIdsStep(c) ==
    (th[c].pc = "new_commit" /\ th'[c].pc = "save") =>
        /\ th[c].sinfo \notin DOMAIN owner
        /\ \A u \in DOMAIN users : th[c].sinfo \notin Range(users[u].sessions)
        /\ th[c].sinfo \in Range(users'[th[c].user].sessions)

SessionIds ==
    /\ []SessionIdsDistinct
    /\ [][ /\ \A c \in Callers : SessionIdsStep(c)
           /\ \A s \in DOMAIN heap : heap'[s].session_id = heap[s].session_id ]_vars

\* One caller alone has created a session, deleted it and created another:
\* the new session has an id the deleted one did not have.
SessionIdsWitness ==
    /\ th["c2"].pc = "idle"
    /\ th["c1"].pc = "save" /\ Cmd("c1") = "/new"
    /\ Deleted(IdSeq[1])
    /\ th["c1"].sinfo \in Range(users[1].sessions)
    /\ th["c1"].sinfo # IdSeq[1]

----------------------------------------------------------------------------
\* C31: when the save fails after a command has changed the store, the
\* change stays in memory: the failing save leaves every user's sessions
\* and active session id, every SessionInfo and the cache as the command's
\* lock block left them.
KeptOnFailedSaveStep(c) ==
    (th[c].pc = "save" /\ th'[c].pc = "done" /\ th'[c].reply = "Raised")
    => /\ users' = users
       /\ heap' = heap
       /\ active_chats' = active_chats
       /\ disk' = disk

KeptOnFailedSave == [][\A c \in Callers : KeptOnFailedSaveStep(c)]_vars

\* The save of a create-session has failed (no file was ever written), and
\* the next message of the same caller has resolved the chat service of the
\* session that was created.
KeptOnFailedSaveWitness ==
    /\ th["c2"].pc = "idle"
    /\ ~disk.exists
    /\ th["c1"].pc = "respond" /\ Cmd("c1") = "text"
    /\ users[1].active_session_id = th["c1"].sinfo
    /\ th["c1"].sinfo \in Range(users[1].sessions)

----------------------------------------------------------------------------
\* C32: a config update that a chat service issues for an existing session
\* completes in the end: once the keys are merged into the session's config,
\* the store is saved and the update returns with the lock released.
UpdateCompletes ==
    \A c \in Callers :
        (th[c].pc = "cfg_save") ~> (th[c].pc # "cfg_save" /\ lock # c)

----------------------------------------------------------------------------
\* C33: splitting a message ends, for every message and wherever its
\* newlines are, and every pass of the loop moves the start forward by one
\* character at least.
SplitTerminates ==
    /\ <>(split.pc = "returned")
    /\ [][split'.parts # split.parts => split'.start > split.start]_vars

----------------------------------------------------------------------------
\* C34: whenever the lock is free, every session id that has a cached chat
\* service is the active session of some user (so a user has one cached
\* service at most, and a deleted or switched-away session has none),
\* however resolve interleaves with switch, create and delete.
CachedAreActive ==
    lock = NoHolder =>
        \A s \in DOMAIN active_chats :
            \E u \in DOMAIN users : users[u].active_session_id = s

\* C35: in every state reached from the empty store, a user's
\* active_session_id is null exactly when that user's sessions map is empty.
ActiveNullIffEmpty ==
    \A u \in DOMAIN users :
        users[u].active_session_id = NoSession <=> users[u].sessions = <<>>

\* A user whose only session was deleted, beside a user who has one.
ActiveNullIffEmptyWitness ==
    /\ \E s \in DOMAIN owner :
          /\ Deleted(s)
          /\ users[owner[s]].sessions = <<>>
          /\ users[owner[s]].active_session_id = NoSession
    /\ \E u \in DOMAIN users :
          /\ users[u].sessions # <<>>
          /\ users[u].active_session_id # NoSession

\* C36: a resolve whose unlocked membership test found the session's service
\* in the cache hands that service out, also when an invalidate removes the
\* entry between the test and the lookup: the lookup never raises.
FastPathNeverRaises ==
    [][\A c \in Callers :
          (th[c].pc = "chat_get" /\ Moved(c)) => th'[c].reply # "Raised"]_vars

\* C37: the step of a role switch that writes a role field writes it on a
\* session that is, at that moment, in the issuing user's sessions map and
\* that user's active session, also when a delete or a switch of the same
\* user ran between the lookup and the write.
RoleWriteOnActiveStep(c) ==
    (th[c].pc = "role_commit" /\ th'[c].pc = "role_evict")
    => /\ th[c].sinfo \in Range(ProfileOf(users, th[c].user).sessions)
       /\ ProfileOf(users, th[c].user).active_session_id = heap[th[c].sinfo].session_id

RoleWriteOnActive == [][\A c \in Callers : RoleWriteOnActiveStep(c)]_vars

\* C38: every step of a command or free-text message of user u leaves the
\* sessions map, the active pointer and the cached chat service of every
\* other user as they were.
OtherUsersStep(c) ==
    Moved(c) =>
        \A v \in UserIds \ {th'[c].user} :
            /\ ProfileOf(users', v) = ProfileOf(users, v)
            /\ \A s \in DOMAIN owner :
                  owner[s] = v =>
                    /\ heap'[s] = heap[s]
                    /\ s \in DOMAIN active_chats' <=> s \in DOMAIN active_chats
                    /\ s \in DOMAIN active_chats =>
                          /\ active_chats'[s] = active_chats[s]
                          /\ services'[active_chats'[s]] = services[active_chats[s]]

OtherUsers == [][\A c \in Callers : OtherUsersStep(c)]_vars

\* User 1 has just created a session while user 2 holds an active session
\* with a cached service.
OtherUsersWitness ==
    /\ \E c \in Callers :
          th[c].pc = "save" /\ th[c].user = 1 /\ Cmd(c) = "/new"
    /\ 2 \in DOMAIN users
    /\ users[2].active_session_id \in DOMAIN active_chats

\* C39: every role-play session that a create-session or a role switch put
\* into the store meets what the role-play factory asks for (both roles set,
\* the bot role known and described), so a resolve never fails for it with
\* a missing-role or unknown-persona error, whatever the known-roles table
\* is, also one that maps a role name to an empty description.
RolePlayBuildable ==
    \A u \in DOMAIN users :
        \A s \in Range(users[u].sessions) :
            heap[s].session_mode = "pwvn" => PWVNCreateService(heap[s]).ok

\* C40: the model that a switch-model binds lives in the chat service
\* instance only: a cache entry is only ever filled with an instance made in
\* that step, and that instance is bound to the process default model; so
\* after an eviction the next service resolved for the session has the
\* default model again.
DefaultAfterEvictionStep ==
    \A s \in DOMAIN active_chats' :
        (s \notin DOMAIN active_chats \/ active_chats'[s] # active_chats[s])
        => /\ Len(services') = Len(services) + 1
           /\ active_chats'[s] = Len(services')
           /\ services'[Len(services')].session_id = s
           /\ services'[Len(services')].llm = DefaultLlm

DefaultAfterEviction == [][DefaultAfterEvictionStep]_vars

\* A session whose earlier instance was switched to another model and then
\* evicted, and whose cached instance was handed to a caller.
DefaultAfterEvictionWitness ==
    \E s \in DOMAIN active_chats, i \in 1..Len(services), c \in Callers :
        /\ services[i].session_id = s
        /\ services[i].llm # DefaultLlm
        /\ active_chats[s] # i
        /\ services[active_chats[s]].llm = DefaultLlm
        /\ th[c].pc = "respond" /\ th[c].chat = active_chats[s]

====
